---- MODULE Spec2Model ----
(***************************************************************************)
(* Room presence tracker of the vibeshare server (server/server.js).       *)
(*                                                                         *)
(* The server keeps one process-wide object, activeUsers, mapping a room   *)
(* name to a map from user name to {joinedAt, lastSeen}.  Four request     *)
(* handlers (join, heartbeat, list, leave) and one setInterval callback    *)
(* (the sweeper) read and write it.  Node runs every handler and the timer *)
(* callback to completion on one event loop, so each is one atomic action. *)
(*                                                                         *)
(* Room and user names range over ordinary strings: names that are not     *)
(* property names inherited from Object.prototype.                         *)
(***************************************************************************)
EXTENDS Integers, Sequences, FiniteSets, TLC

VARIABLES
    activeUsers,  \* server.js:29  room -> (user -> [joinedAt, lastSeen])
    now,          \* the value Date.now() returns (epoch milliseconds)
    nextSweep,    \* the instant at which the setInterval timer is due next
    running,      \* TRUE while the Node process is alive
    req,          \* the request (or timer callback) handled last
    res,          \* the HTTP response sent last
    log,          \* what the last handler wrote with console.log
    joined,       \* history: the (room, user) pairs whose join or heartbeat was
                  \* answered 200 and who have not left or been swept since
    upload,       \* the upload request being handled, and its response
    photos        \* the Photo collection of the document store, in insertion order

presenceVars == <<activeUsers, now, nextSweep, running, req, res, log, joined>>

uploadVars == <<upload, photos>>

vars == <<activeUsers, now, nextSweep, running, req, res, log, joined, upload, photos>>

----------------------------------------------------------------------------
(* Program constants *)

TIMEOUT == 45000

SweepPeriod == 30000

----------------------------------------------------------------------------
(* Bounds of the model *)

\* Number of sweep periods the clock runs through.
Horizon == 3

\* Number of photo records the document store holds at most.
MaxPhotos == 2

\* Instants of the first sweep period at which the clock is observed; later on
\* the clock is observed when the timer is due.
Offsets == {0, 1000, 14000, 15000, 16000}

Instants == Offsets \cup {k * SweepPeriod : k \in 1 .. Horizon}

Rooms == {"lobby", "den"}

Users == {"alice", "bob"}

\* A body field that is not there (undefined in JavaScript).
Absent == "<absent>"

\* The (roomName, username) bodies of the requests that arrive.
Bodies ==
    {<<"lobby", "alice">>, <<"lobby", "bob">>, <<"den", "alice">>,
     <<"", "alice">>, <<"lobby", Absent>>}

----------------------------------------------------------------------------
(* JavaScript values *)

\* !v for a request field: undefined and the empty string are falsy.
Falsy(v) == v = Absent \/ v = ""

\* {} : an object without own properties.
EmptyObject == [k \in {} |-> 0]

\* obj[k] = v
Put(obj, k, v) == [x \in DOMAIN obj \cup {k} |-> IF x = k THEN v ELSE obj[x]]

\* delete obj[k]
Delete(obj, k) == [x \in DOMAIN obj \ {k} |-> obj[x]]

\* Object.keys(obj)
Keys(obj) == DOMAIN obj

\* activeUsers[roomName] is truthy: the room is an own property (objects are truthy).
HasRoom(store, roomName) == roomName \in Keys(store)

\* activeUsers[roomName] && activeUsers[roomName][username]
HasUser(store, roomName, username) ==
    HasRoom(store, roomName) /\ username \in Keys(store[roomName])

NoResponse == [status |-> 0, message |-> "", error |-> "", roomName |-> "",
               activeUsers |-> EmptyObject, activeUserCount |-> 0, users |-> <<>>]

NoRequest == [op |-> "none", roomName |-> "", username |-> ""]

NoLog == [removed |-> {}, left |-> FALSE, threw |-> FALSE]

BadRequest == [NoResponse EXCEPT !.status = 400,
                                 !.error = "roomName and username required"]

\* Mutant of Invalid: the request is refused only when both fields are missing.
Invalid_BothMissing(roomName, username) == Falsy(roomName) /\ Falsy(username)

\* Lines 143, 176, 229: !roomName || !username
Invalid(roomName, username) == Falsy(roomName) \/ Falsy(username)

----------------------------------------------------------------------------
(* join: app.post('/api/users/join') *)

\* Mutant of JoinStore: the room is initialised on every join, also when it
\* is already there.
JoinStore_FreshRoom(store, roomName, username, t) ==
    Put(store, roomName,
        Put(EmptyObject, username, [joinedAt |-> t, lastSeen |-> t]))

\* Lines 147-156: create the room if it is not there, then write the record.
JoinStore(store, roomName, username, t) ==
    LET s1 == IF ~HasRoom(store, roomName)
              THEN Put(store, roomName, EmptyObject)
              ELSE store
    IN  Put(s1, roomName,
            Put(s1[roomName], username, [joinedAt |-> t, lastSeen |-> t]))

\* Mutant of JoinResponse: the response carries the room the store lists first
\* instead of the room of the request.
JoinResponse_AnyRoom(store, roomName) ==
    [NoResponse EXCEPT !.status = 200,
                       !.message = "Joined room",
                       !.activeUsers = store[CHOOSE r \in Keys(store) : TRUE]]

\* Lines 161-164: the room's own map, as it is after the update.
JoinResponse(store, roomName) ==
    [NoResponse EXCEPT !.status = 200,
                       !.message = "Joined room",
                       !.activeUsers = store[roomName]]

Join(roomName, username) ==
    /\ running
    /\ req' = [op |-> "join", roomName |-> roomName, username |-> username]
    /\ IF Invalid(roomName, username)
       THEN /\ res' = BadRequest
            /\ UNCHANGED <<activeUsers, joined>>
       ELSE /\ activeUsers' = JoinStore(activeUsers, roomName, username, now)
            /\ res' = JoinResponse(activeUsers', roomName)
            /\ joined' = joined \cup {<<roomName, username>>}
    /\ log' = NoLog
    /\ UNCHANGED <<now, nextSweep, running>>
    /\ UNCHANGED uploadVars

----------------------------------------------------------------------------
(* heartbeat: app.post('/api/users/heartbeat') *)

\* Line 187: activeUsers[roomName][username]?.joinedAt || Date.now()
\* A missing record gives undefined, and a stored joinedAt of 0 is falsy too.
HeartbeatJoinedAt(room, username, t) ==
    IF username \in Keys(room) /\ room[username].joinedAt # 0
    THEN room[username].joinedAt
    ELSE t

\* Mutant of HeartbeatStore: the heartbeat refreshes joinedAt and keeps the
\* lastSeen of a record that is already there.
HeartbeatStore_RefreshesJoinedAt(store, roomName, username, t) ==
    LET s1 == IF ~HasRoom(store, roomName)
              THEN Put(store, roomName, EmptyObject)
              ELSE store
    IN  Put(s1, roomName,
            Put(s1[roomName], username,
                [joinedAt |-> t,
                 lastSeen |-> IF username \in Keys(s1[roomName])
                              THEN s1[roomName][username].lastSeen
                              ELSE t]))

\* Mutant of HeartbeatStore: lastSeen is written in seconds.
HeartbeatStore_LastSeenInSeconds(store, roomName, username, t) ==
    LET s1 == IF ~HasRoom(store, roomName)
              THEN Put(store, roomName, EmptyObject)
              ELSE store
    IN  Put(s1, roomName,
            Put(s1[roomName], username,
                [joinedAt |-> HeartbeatJoinedAt(s1[roomName], username, t),
                 lastSeen |-> t \div 1000]))

\* Lines 180-189: create the room if it is not there, then write the record.
HeartbeatStore(store, roomName, username, t) ==
    LET s1 == IF ~HasRoom(store, roomName)
              THEN Put(store, roomName, EmptyObject)
              ELSE store
    IN  Put(s1, roomName,
            Put(s1[roomName], username,
                [joinedAt |-> HeartbeatJoinedAt(s1[roomName], username, t),
                 lastSeen |-> t]))

\* Lines 191-193: the room's own map, as it is after the update.
HeartbeatResponse(store, roomName) ==
    [NoResponse EXCEPT !.status = 200, !.activeUsers = store[roomName]]

Heartbeat(roomName, username) ==
    /\ running
    /\ req' = [op |-> "heartbeat", roomName |-> roomName, username |-> username]
    /\ IF Invalid(roomName, username)
       THEN /\ res' = BadRequest
            /\ UNCHANGED <<activeUsers, joined>>
       ELSE /\ activeUsers' = HeartbeatStore(activeUsers, roomName, username, now)
            /\ res' = HeartbeatResponse(activeUsers', roomName)
            /\ joined' = joined \cup {<<roomName, username>>}
    /\ log' = NoLog
    /\ UNCHANGED <<now, nextSweep, running>>
    /\ UNCHANGED uploadVars

----------------------------------------------------------------------------
(* list: app.get('/api/users/:roomName') *)

\* The keys of a room in the order Object.keys lists them.  The order among
\* the keys is fixed here; nothing below depends on which one it is.
RECURSIVE KeySeq(_)
KeySeq(S) ==
    IF S = {} THEN <<>>
    ELSE LET k == CHOOSE x \in S : TRUE IN <<k>> \o KeySeq(S \ {k})

\* Mutant of ListUsers: the first key of the room is skipped.
ListUsers_SkipsFirst(store, roomName) ==
    IF HasRoom(store, roomName)
    THEN LET ks == Tail(KeySeq(Keys(store[roomName])))
         IN  [i \in 1 .. Len(ks) |->
                 [username |-> ks[i],
                  joinedAt |-> store[roomName][ks[i]].joinedAt,
                  lastSeen |-> store[roomName][ks[i]].lastSeen]]
    ELSE <<>>

\* Lines 205-211: one {username, joinedAt, lastSeen} per key of the room.
ListUsers(store, roomName) ==
    IF HasRoom(store, roomName)
    THEN LET ks == KeySeq(Keys(store[roomName]))
         IN  [i \in 1 .. Len(ks) |->
                 [username |-> ks[i],
                  joinedAt |-> store[roomName][ks[i]].joinedAt,
                  lastSeen |-> store[roomName][ks[i]].lastSeen]]
    ELSE <<>>

\* Lines 213-217
ListResponse(store, roomName) ==
    LET users == ListUsers(store, roomName)
    IN  [NoResponse EXCEPT !.status = 200,
                           !.roomName = roomName,
                           !.activeUserCount = Len(users),
                           !.users = users]

\* The room is a path parameter: the route matches only a non-empty segment.
ListActive(roomName) ==
    /\ running
    /\ req' = [op |-> "list", roomName |-> roomName, username |-> ""]
    /\ res' = ListResponse(activeUsers, roomName)
    /\ log' = NoLog
    /\ UNCHANGED <<activeUsers, now, nextSweep, running, joined>>
    /\ UNCHANGED uploadVars

----------------------------------------------------------------------------
(* leave: app.delete('/api/users/leave') *)

\* Mutant of LeaveDelete: the record is not deleted.
LeaveDelete_Skipped(store, roomName, username) == store

\* Lines 233-236: delete the record if the room and the record are there.
LeaveDelete(store, roomName, username) ==
    IF HasUser(store, roomName, username)
    THEN Put(store, roomName, Delete(store[roomName], username))
    ELSE store

\* Mutant of LeaveCleanup: the empty room is kept.
LeaveCleanup_Skipped(store, roomName) == store

\* Mutant of LeaveCleanup: the room is deleted whether or not it is empty.
LeaveCleanup_Always(store, roomName) ==
    IF HasRoom(store, roomName) THEN Delete(store, roomName) ELSE store

\* Lines 238-241: delete the room if it is there and has no keys left.
LeaveCleanup(store, roomName) ==
    IF HasRoom(store, roomName) /\ Cardinality(Keys(store[roomName])) = 0
    THEN Delete(store, roomName)
    ELSE store

LeaveStore(store, roomName, username) ==
    LeaveCleanup(LeaveDelete(store, roomName, username), roomName)

Leave(roomName, username) ==
    /\ running
    /\ req' = [op |-> "leave", roomName |-> roomName, username |-> username]
    /\ IF Invalid(roomName, username)
       THEN /\ res' = BadRequest
            /\ log' = NoLog
            /\ UNCHANGED <<activeUsers, joined>>
       ELSE /\ activeUsers' = LeaveStore(activeUsers, roomName, username)
            /\ res' = [NoResponse EXCEPT !.status = 200, !.message = "Left room"]
            /\ log' = [NoLog EXCEPT !.left = HasUser(activeUsers, roomName, username)]
            /\ joined' = joined \ {<<roomName, username>>}
    /\ UNCHANGED <<now, nextSweep, running>>
    /\ UNCHANGED uploadVars

----------------------------------------------------------------------------
(* sweeper: the setInterval callback, lines 32-49 *)

\* Mutant of Stale: a record is stale from exactly TIMEOUT on.
Stale_AtTimeout(user, t) == t - user.lastSeen >= TIMEOUT

\* Mutant of Stale: a record is stale one sweep period later.
Stale_Late(user, t) == t - user.lastSeen > TIMEOUT + SweepPeriod

\* Line 39
Stale(user, t) == t - user.lastSeen > TIMEOUT

\* Mutant of SweepRoom: the records that stay get their lastSeen refreshed.
SweepRoom_Refreshes(room, t) ==
    [username \in {u \in Keys(room) : ~Stale(room[u], t)} |->
        [room[username] EXCEPT !.lastSeen = t]]

\* Lines 37-43: the inner loop deletes every stale record of one room.
\* Deleting the property a for-in loop is visiting does not disturb the loop.
SweepRoom(room, t) ==
    [username \in {u \in Keys(room) : ~Stale(room[u], t)} |-> room[username]]

\* Mutant of SweepStore: a room left without keys is kept.
SweepStore_KeepsEmptyRooms(store, t) ==
    [roomName \in Keys(store) |-> SweepRoom(store[roomName], t)]

\* Lines 36-48: every room is swept, then deleted if it has no keys left.
SweepStore(store, t) ==
    LET swept == [roomName \in Keys(store) |-> SweepRoom(store[roomName], t)]
    IN  [roomName \in {r \in Keys(store) : Cardinality(Keys(swept[r])) # 0}
            |-> swept[roomName]]

\* Line 41: the (room, user) pairs reported as removed.
SweepRemoved(store, t) ==
    {<<r, u>> \in Rooms \X Users :
        HasUser(store, r, u) /\ Stale(store[r][u], t)}

\* The timer fires when it is due and is due again one period later.
SweeperTick ==
    /\ running
    /\ now >= nextSweep
    /\ activeUsers' = SweepStore(activeUsers, now)
    /\ nextSweep' = now + SweepPeriod
    /\ req' = [op |-> "sweep", roomName |-> "", username |-> ""]
    /\ res' = NoResponse
    /\ log' = [NoLog EXCEPT !.removed = SweepRemoved(activeUsers, now)]
    /\ joined' = joined \ log'.removed
    /\ UNCHANGED <<now, running>>
    /\ UNCHANGED uploadVars

\* The callback has no try/catch: an exception raised while it runs leaves the
\* callback, nothing in the program handles it, and Node ends the process.  The
\* timer, the request handlers and the store in the process's memory end with it.
SweeperThrows ==
    /\ running
    /\ now >= nextSweep
    /\ Keys(activeUsers) # {}
    /\ running' = FALSE
    /\ req' = [op |-> "sweep", roomName |-> "", username |-> ""]
    /\ res' = NoResponse
    /\ log' = [NoLog EXCEPT !.threw = TRUE]
    /\ UNCHANGED <<activeUsers, now, nextSweep, joined>>
    /\ UNCHANGED uploadVars

----------------------------------------------------------------------------
(* clock *)

\* Time passes.  A due timer callback runs before the clock moves past it.
AdvanceClock(t) ==
    /\ running
    /\ t > now
    /\ t <= nextSweep
    /\ now' = t
    /\ UNCHANGED <<activeUsers, nextSweep, running, req, res, log, joined>>
    /\ UNCHANGED uploadVars

----------------------------------------------------------------------------
(* upload: app.post('/api/upload'), with the Photo model and the media host *)

\* A value that is not there (undefined or null in JavaScript).
None == [none |-> TRUE]

\* What the media host hands to the callback on success.
CloudResults ==
    {[secure_url |-> "https://host/a.jpg", public_id |-> "vibeshare/a"],
     [secure_url |-> "https://host/b.jpg", public_id |-> "vibeshare/b"]}

\* The (roomName, username) form fields that come with the file.
UploadBodies == {<<"lobby", "alice">>, <<Absent, Absent>>}

\* The paths of photoSchema.
SchemaPaths == {"imageUrl", "roomName", "username", "createdAt"}

\* The paths of photoSchema with required: true.
RequiredPaths == {"imageUrl", "roomName", "username"}

\* new Photo(fields): the schema is strict (the default), so a field that is
\* no path of the schema is dropped; createdAt defaults to Date.now.
NewPhoto(fields, t) ==
    [k \in (DOMAIN fields \cap SchemaPaths) \cup {"createdAt"} |->
        IF k \in DOMAIN fields THEN fields[k] ELSE t]

\* Validation on save: every required path is there and not empty.
PhotoValid(doc) ==
    \A k \in RequiredPaths : k \in DOMAIN doc /\ ~Falsy(doc[k])

\* Lines 105-111: the fields the handler passes to the Photo constructor.
PhotoFields(result, roomName, username) ==
    [imageUrl |-> result.secure_url,
     publicId |-> result.public_id,
     roomName |-> IF Falsy(roomName) THEN "general" ELSE roomName,
     username |-> IF Falsy(username) THEN "Anonymous" ELSE username]

Idle == [pc |-> "idle", roomName |-> Absent, username |-> Absent,
         result |-> None, status |-> 0, sent |-> None]

\* Lines 90-100: a request without files is answered 400; otherwise the buffer
\* of the first file is streamed to the media host and the handler awaits.
UploadRequest(files, roomName, username) ==
    /\ running
    /\ upload.pc = "idle"
    /\ IF files = 0
       THEN upload' = [Idle EXCEPT !.status = 400]
       ELSE upload' = [Idle EXCEPT !.pc = "uploading",
                                   !.roomName = roomName,
                                   !.username = username]
    /\ UNCHANGED photos
    /\ UNCHANGED presenceVars

\* Lines 75-81 and 100-111: the media host calls back with a result, the
\* promise resolves, and the handler builds the Photo and awaits its save.
UploadResolves(result) ==
    /\ running
    /\ upload.pc = "uploading"
    /\ upload' = [upload EXCEPT !.pc = "saving", !.result = result]
    /\ UNCHANGED photos
    /\ UNCHANGED presenceVars

\* Lines 75-81 and 118-121: the media host calls back without a result, the
\* promise rejects, and the catch block answers 500.
UploadRejects ==
    /\ running
    /\ upload.pc = "uploading"
    /\ upload' = [Idle EXCEPT !.status = 500]
    /\ UNCHANGED photos
    /\ UNCHANGED presenceVars

\* Lines 113-116: the save succeeds and the stored document is the response.
SaveSucceeds ==
    /\ running
    /\ upload.pc = "saving"
    /\ Len(photos) < MaxPhotos
    /\ LET doc == NewPhoto(PhotoFields(upload.result, upload.roomName,
                                       upload.username), now)
       IN  /\ PhotoValid(doc)
           /\ photos' = Append(photos, doc)
           /\ upload' = [Idle EXCEPT !.status = 200, !.sent = doc]
    /\ UNCHANGED presenceVars

\* Lines 113 and 118-121: the save throws (validation or the document store),
\* and the catch block answers 500.
SaveFails ==
    /\ running
    /\ upload.pc = "saving"
    /\ upload' = [Idle EXCEPT !.status = 500]
    /\ UNCHANGED photos
    /\ UNCHANGED presenceVars

----------------------------------------------------------------------------

Init ==
    /\ activeUsers = EmptyObject
    /\ now = 0
    /\ nextSweep = SweepPeriod
    /\ running = TRUE
    /\ req = NoRequest
    /\ res = NoResponse
    /\ log = NoLog
    /\ joined = {}
    /\ upload = Idle
    /\ photos = <<>>

Next ==
    \/ \E b \in Bodies : Join(b[1], b[2])
    \/ \E b \in Bodies : Heartbeat(b[1], b[2])
    \/ \E roomName \in Rooms : ListActive(roomName)
    \/ \E b \in Bodies : Leave(b[1], b[2])
    \/ SweeperTick
    \/ \E t \in Instants : AdvanceClock(t)

Spec == Init /\ [][Next]_vars

\* The same program when the sweeper callback may raise an exception.
NextFault == Next \/ SweeperThrows

SpecFault == Init /\ [][NextFault]_vars

\* The upload route on its own.
NextUpload ==
    \/ \E files \in {0, 1}, b \in UploadBodies : UploadRequest(files, b[1], b[2])
    \/ \E result \in CloudResults : UploadResolves(result)
    \/ UploadRejects
    \/ SaveSucceeds
    \/ SaveFails

SpecUpload == Init /\ [][NextUpload]_vars

----------------------------------------------------------------------------
(* Properties *)

\* The bodies that pass validation.
ValidBodies == {b \in Bodies : ~Falsy(b[1]) /\ ~Falsy(b[2])}

\* The bodies with a missing or empty identifier.
InvalidBodies == Bodies \ ValidBodies

\* The user names a list response carries.
ListedNames(store, roomName) ==
    {ListUsers(store, roomName)[i].username :
        i \in 1 .. Len(ListUsers(store, roomName))}

\* C1: a join or heartbeat for (room, member) leaves lastSeen at the time of
\* the call and joinedAt at the time of the first call of the sequence: a call
\* for a record that is already there keeps its joinedAt, a call for a record
\* that is not there sets joinedAt to the time of the call.
C1_JoinedAtFirstLastSeenLatest ==
    [][\A b \in ValidBodies :
          (Join(b[1], b[2]) \/ Heartbeat(b[1], b[2])) =>
              /\ HasUser(activeUsers', b[1], b[2])
              /\ activeUsers'[b[1]][b[2]].lastSeen = now
              /\ activeUsers'[b[1]][b[2]].joinedAt =
                    IF HasUser(activeUsers, b[1], b[2])
                    THEN activeUsers[b[1]][b[2]].joinedAt
                    ELSE now]_vars

\* C2: one sweeper tick at time now removes, in every room, exactly the
\* members with now - lastSeen > 45000: a member that was there before the
\* tick is there after it if and only if now - lastSeen <= 45000.
C2_SweepRemovesExactlyStale ==
    [][SweeperTick =>
          \A r \in Rooms, u \in Users :
              HasUser(activeUsers, r, u) =>
                  (HasUser(activeUsers', r, u)
                      <=> now - activeUsers[r][u].lastSeen <= 45000)]_vars

\* C2 witness: a tick has just removed a member, and a member whose lastSeen
\* is exactly 45000 ms old is still there.
C2_Witness ==
    /\ req.op = "sweep"
    /\ log.removed # {}
    /\ \E r \in Rooms, u \in Users :
          HasUser(activeUsers, r, u) /\ now - activeUsers[r][u].lastSeen = 45000

\* C3: between operations, every room key of the store has at least one
\* member record.
C3_NoEmptyRoom ==
    \A r \in Keys(activeUsers) : Keys(activeUsers[r]) # {}

\* C3 witness: a leave has just removed the only member of a room, the room
\* key is gone, and another room is still there.
C3_Witness ==
    /\ req.op = "leave"
    /\ log.left
    /\ ~HasRoom(activeUsers, req.roomName)
    /\ Keys(activeUsers) # {}

\* C4: after a valid leave(room, member) the list of the room does not name
\* the member; if the member was the only one of the room, the room key is
\* gone; and a join for a record that is not there creates it with joinedAt
\* at the time of that join.
C4_LeaveRemovesAndJoinIsFresh ==
    [][\A b \in ValidBodies :
          /\ Leave(b[1], b[2]) =>
                /\ b[2] \notin ListedNames(activeUsers', b[1])
                /\ (HasRoom(activeUsers, b[1]) /\ Keys(activeUsers[b[1]]) \subseteq {b[2]})
                      => ~HasRoom(activeUsers', b[1])
          /\ (Join(b[1], b[2]) /\ ~HasUser(activeUsers, b[1], b[2])) =>
                /\ HasUser(activeUsers', b[1], b[2])
                /\ activeUsers'[b[1]][b[2]].joinedAt = now]_vars

\* C4 witness: a leave has just removed the only member of a room some time
\* after the start: the room key is gone and the list of the room is empty.
C4_Witness ==
    /\ req.op = "leave"
    /\ res.status = 200
    /\ log.left
    /\ now > 0
    /\ ~HasRoom(activeUsers, req.roomName)
    /\ ListResponse(activeUsers, req.roomName).activeUserCount = 0

\* C5: a join, heartbeat or leave with a missing or empty room or member is
\* answered 400 and leaves the store as it was.
C5_InvalidRequestChangesNothing ==
    [][\A b \in InvalidBodies :
          (Join(b[1], b[2]) \/ Heartbeat(b[1], b[2]) \/ Leave(b[1], b[2])) =>
              /\ res'.status = 400
              /\ activeUsers' = activeUsers]_vars

\* C5 witness: a request was refused with 400 while the store held records.
C5_Witness ==
    /\ req.op \in {"join", "heartbeat", "leave"}
    /\ Falsy(req.roomName) \/ Falsy(req.username)
    /\ res.status = 400
    /\ Keys(activeUsers) # {}

\* C6: two joins for different members of one room, in either order and with
\* or without a sweeper tick between them, both show in the list of the room:
\* every (room, member) whose join or heartbeat was answered 200, and who has
\* not left or been swept since, is named by the list of the room.
C6_NoLostJoin ==
    \A p \in joined : p[2] \in ListedNames(activeUsers, p[1])

\* C6 witness: the list of a room has just named two members, one who joined
\* before the first sweeper tick and one who joined after it.
C6_Witness ==
    /\ req.op = "list"
    /\ res.activeUserCount = 2
    /\ {<<req.roomName, "alice">>, <<req.roomName, "bob">>} \subseteq joined
    /\ \E i, j \in 1 .. Len(res.users) :
          /\ res.users[i].joinedAt < SweepPeriod
          /\ res.users[j].joinedAt > SweepPeriod

\* C7: join("lobby","alice") at 0 lists alice with joinedAt 0 and lastSeen 0;
\* heartbeat("lobby","alice") at 1000 then lists her with joinedAt 0 and
\* lastSeen 1000; leave("lobby","alice") then lists nobody.
C7_Scenario ==
    [][/\ (Join("lobby", "alice") /\ now = 0 /\ activeUsers = EmptyObject) =>
              /\ ListResponse(activeUsers', "lobby").activeUserCount = 1
              /\ ListResponse(activeUsers', "lobby").users =
                    <<[username |-> "alice", joinedAt |-> 0, lastSeen |-> 0]>>
       /\ (/\ Heartbeat("lobby", "alice")
           /\ now = 1000
           /\ Keys(activeUsers) = {"lobby"}
           /\ ListResponse(activeUsers, "lobby").users =
                 <<[username |-> "alice", joinedAt |-> 0, lastSeen |-> 0]>>) =>
              /\ ListResponse(activeUsers', "lobby").activeUserCount = 1
              /\ ListResponse(activeUsers', "lobby").users =
                    <<[username |-> "alice", joinedAt |-> 0, lastSeen |-> 1000]>>
       /\ (/\ Leave("lobby", "alice")
           /\ Keys(activeUsers) = {"lobby"}
           /\ Keys(activeUsers["lobby"]) = {"alice"}) =>
              /\ ListResponse(activeUsers', "lobby").activeUserCount = 0
              /\ ListResponse(activeUsers', "lobby").users = <<>>]_vars

\* C8: after a sweeper tick that raised an exception the process is still
\* running: later ticks and request handlers are still served.
C8_SweeperFailureContained ==
    (req.op = "sweep" /\ log.threw) => running

\* C9: a valid leave is always answered with the same success response; a leave
\* for a room or member that is not there changes nothing; and a leave that
\* repeats the leave just answered gives the same response and the same store.
C9_LeaveIdempotent ==
    [][\A b \in ValidBodies :
          Leave(b[1], b[2]) =>
              /\ res' = [NoResponse EXCEPT !.status = 200, !.message = "Left room"]
              /\ ~HasUser(activeUsers, b[1], b[2]) => activeUsers' = activeUsers
              /\ (/\ req = [op |-> "leave", roomName |-> b[1], username |-> b[2]]
                  /\ res.status = 200)
                    => (res' = res /\ activeUsers' = activeUsers)]_vars

\* C9 witness: a leave for a member that is not there was answered with
\* success while the store held other records.
C9_Witness ==
    /\ req.op = "leave"
    /\ res.status = 200
    /\ res.message = "Left room"
    /\ ~log.left
    /\ Keys(activeUsers) # {}

\* C10: a sweeper tick that removes every member of a room removes the room
\* key in the same tick, and the list of the room is then empty with count 0.
C10_SweepRemovesEmptiedRoom ==
    [][SweeperTick =>
          \A r \in Rooms :
              (/\ HasRoom(activeUsers, r)
               /\ \A u \in Keys(activeUsers[r]) :
                     now - activeUsers[r][u].lastSeen > 45000) =>
                  /\ ~HasRoom(activeUsers', r)
                  /\ ListResponse(activeUsers', r).activeUserCount = 0
                  /\ ListResponse(activeUsers', r).users = <<>>]_vars

\* C10 witness: a tick has just removed a member whose room key is gone,
\* while another room is still there.
C10_Witness ==
    /\ req.op = "sweep"
    /\ \E p \in log.removed : ~HasRoom(activeUsers, p[1])
    /\ Keys(activeUsers) # {}

\* C11: a list request never changes the store and answers 200 with the room
\* name, one entry (username, joinedAt, lastSeen) per record of the room, and
\* a count equal to the length of that list; for a room that is not in the
\* store the list is empty, the count is 0 and the room is not created.
C11_ListIsReadOnlyAndComplete ==
    [][\A r \in Rooms :
          ListActive(r) =>
              /\ activeUsers' = activeUsers
              /\ res'.status = 200
              /\ res'.roomName = r
              /\ res'.activeUserCount = Len(res'.users)
              /\ HasRoom(activeUsers, r) =>
                    /\ Len(res'.users) = Cardinality(Keys(activeUsers[r]))
                    /\ \A u \in Keys(activeUsers[r]) :
                          \E i \in 1 .. Len(res'.users) :
                              res'.users[i] =
                                  [username |-> u,
                                   joinedAt |-> activeUsers[r][u].joinedAt,
                                   lastSeen |-> activeUsers[r][u].lastSeen]
              /\ ~HasRoom(activeUsers, r) =>
                    /\ res'.users = <<>>
                    /\ res'.activeUserCount = 0
                    /\ ~HasRoom(activeUsers', r)]_vars

\* C11 witness: a list request has just been answered with two entries while
\* the store held two rooms.
C11_Witness ==
    /\ req.op = "list"
    /\ res.status = 200
    /\ res.activeUserCount = 2
    /\ Len(res.users) = 2
    /\ Cardinality(Keys(activeUsers)) = 2

\* C12: in every store the program reaches, for every valid (room, member), a
\* join and a heartbeat at the current time lead to the same store.
C12_JoinEqualsHeartbeat ==
    \A b \in ValidBodies :
        JoinStore(activeUsers, b[1], b[2], now)
            = HeartbeatStore(activeUsers, b[1], b[2], now)

\* C13: a heartbeat for a record that is already there keeps its joinedAt,
\* whatever the stored value, and sets lastSeen to the current time.
C13_HeartbeatKeepsJoinedAt ==
    [][\A b \in ValidBodies :
          (Heartbeat(b[1], b[2]) /\ HasUser(activeUsers, b[1], b[2])) =>
              /\ activeUsers'[b[1]][b[2]].joinedAt = activeUsers[b[1]][b[2]].joinedAt
              /\ activeUsers'[b[1]][b[2]].lastSeen = now]_vars

\* C15: with a clock that never goes backwards, every record of the store has
\* joinedAt <= lastSeen.
C15_JoinedAtBeforeLastSeen ==
    \A r \in Keys(activeUsers) :
        \A u \in Keys(activeUsers[r]) :
            activeUsers[r][u].joinedAt <= activeUsers[r][u].lastSeen

\* C15 witness: a heartbeat has just refreshed a record that joined earlier.
C15_Witness ==
    /\ req.op = "heartbeat"
    /\ res.status = 200
    /\ HasUser(activeUsers, req.roomName, req.username)
    /\ activeUsers[req.roomName][req.username].joinedAt < now
    /\ activeUsers[req.roomName][req.username].lastSeen = now

\* C16: with a clock that never goes backwards, no step lowers the lastSeen of
\* a record that is there before and after the step.
C16_LastSeenNeverDecreases ==
    [][activeUsers' # activeUsers =>
          \A r \in Rooms, u \in Users :
              (HasUser(activeUsers, r, u) /\ HasUser(activeUsers', r, u)) =>
                  activeUsers'[r][u].lastSeen >= activeUsers[r][u].lastSeen]_vars

\* C16 witness: a join or heartbeat has just raised the lastSeen of its record
\* in a room where another record, last seen earlier, is still there.
C16_Witness ==
    /\ req.op \in {"join", "heartbeat"}
    /\ res.status = 200
    /\ activeUsers[req.roomName][req.username].lastSeen = now
    /\ \E u \in Keys(activeUsers[req.roomName]) :
          activeUsers[req.roomName][u].lastSeen < now

\* C17: a join or heartbeat answered 200 returns the records of its room as
\* they are right after its own update: the caller with lastSeen at the time
\* of the call, every other member of the room, and nothing else.
C17_ResponseIsRoomAfterUpdate ==
    [][\A b \in ValidBodies :
          (Join(b[1], b[2]) \/ Heartbeat(b[1], b[2])) =>
              /\ res'.status = 200
              /\ DOMAIN res'.activeUsers = Keys(activeUsers'[b[1]])
              /\ \A u \in DOMAIN res'.activeUsers :
                    res'.activeUsers[u] = activeUsers'[b[1]][u]
              /\ b[2] \in DOMAIN res'.activeUsers
              /\ res'.activeUsers[b[2]].lastSeen = now
              /\ HasRoom(activeUsers, b[1]) =>
                    \A u \in Keys(activeUsers[b[1]]) \ {b[2]} :
                        /\ u \in DOMAIN res'.activeUsers
                        /\ res'.activeUsers[u] = activeUsers[b[1]][u]]_vars

\* C17 witness: a join or heartbeat has just been answered with two members
\* of its room while the store held another room as well.
C17_Witness ==
    /\ req.op \in {"join", "heartbeat"}
    /\ res.status = 200
    /\ Cardinality(DOMAIN res.activeUsers) = 2
    /\ Cardinality(Keys(activeUsers)) = 2

\* C18: with the timer firing every 30000 ms, a record last seen at T is gone
\* no later than T + 45000 + 30000: while the record is there the clock has
\* not passed T + 75000 and the next tick is due by then; and a record that is
\* gone comes back only by a new join or heartbeat, last seen at that time.
C18_EvictionBounded ==
    [][\A r \in Rooms, u \in Users :
          /\ HasUser(activeUsers', r, u) =>
                /\ now' <= activeUsers'[r][u].lastSeen + 45000 + 30000
                /\ nextSweep' <= activeUsers'[r][u].lastSeen + 45000 + 30000
          /\ (~HasUser(activeUsers, r, u) /\ HasUser(activeUsers', r, u)) =>
                /\ activeUsers'[r][u].lastSeen = now
                /\ req'.op \in {"join", "heartbeat"}
                /\ req'.roomName = r
                /\ req'.username = u]_vars

\* C18 witness: a tick at 75000 ms or later has just removed a record while
\* another record, seen more recently, stays.
C18_Witness ==
    /\ req.op = "sweep"
    /\ now >= 45000 + 30000
    /\ log.removed # {}
    /\ \E r \in Keys(activeUsers) : \E u \in Keys(activeUsers[r]) :
          now - activeUsers[r][u].lastSeen <= 45000

\* C19: a member whose joins and heartbeats are never more than 45000 ms apart
\* is never removed by a sweeper tick and keeps the joinedAt of its first
\* call: a tick removes a record only when it was last seen more than 45000 ms
\* ago, and a join or heartbeat that comes within 45000 ms of the last one
\* keeps the record's joinedAt.
C19_ActiveMemberKeepsRecord ==
    [][\A b \in ValidBodies :
          HasUser(activeUsers, b[1], b[2]) =>
              /\ (SweeperTick /\ ~HasUser(activeUsers', b[1], b[2])) =>
                    now - activeUsers[b[1]][b[2]].lastSeen > 45000
              /\ (/\ Join(b[1], b[2]) \/ Heartbeat(b[1], b[2])
                  /\ now - activeUsers[b[1]][b[2]].lastSeen <= 45000) =>
                    activeUsers'[b[1]][b[2]].joinedAt
                        = activeUsers[b[1]][b[2]].joinedAt]_vars

\* C20: a join, heartbeat or leave for (room, member) leaves every other
\* record as it was, and a sweeper tick leaves every record it keeps as it was
\* and adds none.
C20_OtherRecordsUntouched ==
    [][activeUsers' # activeUsers =>
       /\ \A b \in ValidBodies :
             (/\ req'.roomName = b[1]
              /\ req'.username = b[2]
              /\ Join(b[1], b[2]) \/ Heartbeat(b[1], b[2]) \/ Leave(b[1], b[2])) =>
                 \A r \in Rooms, u \in Users :
                     (<<r, u>> # b /\ HasUser(activeUsers, r, u)) =>
                         /\ HasUser(activeUsers', r, u)
                         /\ activeUsers'[r][u] = activeUsers[r][u]
       /\ (req'.op = "sweep" /\ SweeperTick) =>
             \A r \in Rooms, u \in Users :
                 HasUser(activeUsers', r, u) =>
                     /\ HasUser(activeUsers, r, u)
                     /\ activeUsers'[r][u] = activeUsers[r][u]]_vars

\* C20 witness: a request for alice in one room has just been handled while
\* the other room holds an alice last seen at another time and the lobby
\* holds bob.
C20_Witness ==
    /\ req.op \in {"join", "heartbeat", "leave"}
    /\ res.status = 200
    /\ req.username = "alice"
    /\ HasUser(activeUsers, "lobby", "bob")
    /\ \E r \in Rooms \ {req.roomName} :
          /\ HasUser(activeUsers, r, "alice")
          /\ activeUsers[r]["alice"].lastSeen < now

\* C14: a photo record is saved only after the media host upload succeeded,
\* and it carries the URL and the public id that upload returned; an upload
\* that fails saves nothing and is answered with an error.
C14_SavedOnlyAfterUploadWithItsIds ==
    [][/\ photos' # photos =>
             /\ upload.pc = "saving"
             /\ upload.result \in CloudResults
             /\ Len(photos') = Len(photos) + 1
             /\ photos'[Len(photos')].imageUrl = upload.result.secure_url
             /\ "publicId" \in DOMAIN photos'[Len(photos')]
             /\ photos'[Len(photos')].publicId = upload.result.public_id
       /\ UploadRejects =>
             /\ photos' = photos
             /\ upload'.status = 500]_vars

====
